---- MODULE Spec2Model ----
(***************************************************************************)
(* Local/remote synchronisation of the thermal measurement manager.        *)
(* The local store is the SQLite mirror, the remote store is the shared    *)
(* PostgreSQL database.  Every service function of                         *)
(* thermal_local/services is one atomic action (the program is single      *)
(* process, single thread, one connection per call).                       *)
(***************************************************************************)
EXTENDS Integers, Sequences, FiniteSets, TLC

VARIABLES local, remote, folders, nextUuid, session, last, schema

vars == <<local, remote, folders, nextUuid, session, last, schema>>

(***************************************************************************)
(* Bounds of the model.                                                    *)
(***************************************************************************)
\* number of identifiers uuid4() hands out in one behaviour
MaxUuid == 2

(***************************************************************************)
(* Values.  A value carries the Python type the driver hands over, so that *)
(* the normalisation of the pull is a real conversion.                     *)
(***************************************************************************)
Val(t, v) == [t |-> t, v |-> v]

NULL == Val("null", 0)

\* SQL NULL for an integer column is the empty set, a value n is {n}
NoOrder == {}

\* sync.py _normalize_value
_normalize_value(x) ==
    IF x.t \in {"dict", "list"} THEN Val("str", x.v)
    ELSE IF x.t = "decimal" THEN Val("float", x.v)
    ELSE IF x.t = "datetime" THEN Val("str", x.v)
    ELSE x

\* float(r["frequency"]) of insert_cole_cole and its siblings
float(x) == Val("float", x.v)

(***************************************************************************)
(* Names.  A measurement name is a sequence of characters, so that         *)
(* str.strip() is computed and not assumed.                                *)
(***************************************************************************)
Whitespace == {" "}

RECURSIVE lstrip(_)
lstrip(s) == IF s # <<>> /\ Head(s) \in Whitespace THEN lstrip(Tail(s)) ELSE s

RECURSIVE rstrip(_)
rstrip(s) ==
    IF s # <<>> /\ s[Len(s)] \in Whitespace
    THEN rstrip(SubSeq(s, 1, Len(s) - 1))
    ELSE s

\* measurement_name.strip()
strip(s) == rstrip(lstrip(s))

Usernames == {"alice", "bob"}
\* the users that create measurements through the service; the remote store
\* starts with a live measurement of alice and a deleted one of bob
Creators == {"bob"}
DeviceNames == {"A", "B"}
NameInputs == {<<"X">>, <<" ", "X", " ">>}
Kinds == {"cole_cole", "standard_plot", "nanothickness"}

(***************************************************************************)
(* The remote store before the application starts.  Devices and users are  *)
(* created on the remote side only.                                        *)
(***************************************************************************)
RemoteUsers0 ==
    { [id |-> 201, username |-> "alice", role |-> "admin", active |-> TRUE,
       hashed_password |-> "h1", created_at |-> Val("datetime", 1),
       is_delete |-> FALSE],
      [id |-> 202, username |-> "bob", role |-> "user", active |-> TRUE,
       hashed_password |-> "h2", created_at |-> Val("datetime", 1),
       is_delete |-> FALSE],
      [id |-> 203, username |-> "carol", role |-> "user", active |-> FALSE,
       hashed_password |-> "h3", created_at |-> Val("datetime", 1),
       is_delete |-> FALSE] }

RemoteDevices0 ==
    { [id |-> 101, name |-> "A", structure_json |-> Val("dict", 1),
       experiment_by |-> "alice", created_by |-> "alice",
       created_at |-> Val("datetime", 1), is_delete |-> FALSE],
      [id |-> 102, name |-> "B", structure_json |-> NULL,
       experiment_by |-> "bob", created_by |-> "bob",
       created_at |-> Val("datetime", 1), is_delete |-> FALSE] }

RemoteMeasurements0 ==
    { [id |-> 301, device_id |-> 101, num_order |-> {1}, name |-> <<"X">>,
       created_by |-> "alice", created_at |-> Val("datetime", 1),
       is_delete |-> FALSE],
      [id |-> 302, device_id |-> 101, num_order |-> {2}, name |-> <<"Y">>,
       created_by |-> "bob", created_at |-> Val("datetime", 2),
       is_delete |-> TRUE] }

RemoteColeCole0 ==
    { [id |-> 401, measurement_id |-> 301, vals |-> Val("decimal", 7),
       is_delete |-> FALSE],
      [id |-> 403, measurement_id |-> 302, vals |-> Val("decimal", 9),
       is_delete |-> TRUE] }

RemoteNanothickness0 ==
    { [id |-> 402, measurement_id |-> 301, vals |-> Val("decimal", 8),
       is_delete |-> FALSE] }

(***************************************************************************)
(* The schema of the local database (migrations.py).  A table is the set   *)
(* of its column names; a table that does not exist has none.              *)
(***************************************************************************)
\* the columns of the CREATE TABLE statements
CurrentColumns ==
    [users |-> {"id", "username", "role", "active", "hashed_password",
                "created_at", "is_delete"},
     devices |-> {"id", "name", "structure_json", "experiment_by",
                  "created_by", "created_at", "is_delete"},
     measurements |-> {"id", "name", "device_id", "num_order", "created_by",
                       "created_at", "is_delete"},
     nanothickness |-> {"id", "measurement_id", "pos1", "pos2", "pos3",
                        "pos4", "pos5", "is_delete"},
     cole_cole |-> {"id", "measurement_id", "frequency", "resistance",
                    "reactance", "capacitance", "is_delete"},
     standard_plot |-> {"id", "measurement_id", "time", "voltage",
                        "is_delete"}]

EmptyStore ==
    [users |-> {}, devices |-> {}, measurements |-> {}, cole_cole |-> {},
     standard_plot |-> {}, nanothickness |-> {}]

\* st.session_state.username = None
NoUser == "-"

NoOp ==
    [op |-> "none", res |-> "ok", mid |-> 0, dev |-> "-", name |-> <<>>,
     user |-> NoUser, kind |-> "-", n |-> 0, columns |-> <<>>, out |-> <<>>,
     missing |-> {}]

Init ==
    /\ local = EmptyStore
    /\ remote = [users |-> RemoteUsers0, devices |-> RemoteDevices0,
                 measurements |-> RemoteMeasurements0,
                 cole_cole |-> RemoteColeCole0, standard_plot |-> {},
                 nanothickness |-> RemoteNanothickness0]
    /\ folders = {}
    /\ nextUuid = 1
    /\ session = [bootstrapped |-> FALSE, username |-> NoUser]
    /\ last = NoOp
    /\ schema = CurrentColumns


(***************************************************************************)
(* Pull: remote -> local full refresh.                                      *)
(***************************************************************************)
\* columns of users the pull selects; is_delete takes the column default
PullUser(r) ==
    [id |-> r.id, username |-> r.username, role |-> r.role,
     active |-> r.active, hashed_password |-> r.hashed_password,
     created_at |-> _normalize_value(r.created_at), is_delete |-> 0]

PullDevice(r) ==
    [id |-> r.id, name |-> r.name,
     structure_json |-> _normalize_value(r.structure_json),
     experiment_by |-> r.experiment_by, created_by |-> r.created_by,
     created_at |-> _normalize_value(r.created_at), is_delete |-> 0]

PullMeasurement(r) ==
    [id |-> r.id, device_id |-> r.device_id, num_order |-> r.num_order,
     name |-> r.name, created_by |-> r.created_by,
     created_at |-> _normalize_value(r.created_at), is_delete |-> 0]

PullReading(r) ==
    [id |-> r.id, measurement_id |-> r.measurement_id,
     vals |-> _normalize_value(r.vals), is_delete |-> 0]

\* a pull that inserts without clearing first
ClearedStore_keep(st) == st

\* the six DELETE statements: what is left of the local store
ClearedStore(st) == EmptyStore

\* a pull that reloads nanothickness like the other two reading tables
PulledStore_loadNano(st, rem) ==
    [users |-> {PullUser(r) : r \in rem.users},
     devices |-> {PullDevice(r) : r \in rem.devices},
     measurements |->
        {PullMeasurement(r) :
            r \in {m \in rem.measurements :
                    \E d \in rem.devices : d.id = m.device_id}},
     cole_cole |-> {PullReading(r) : r \in rem.cole_cole},
     standard_plot |-> {PullReading(r) : r \in rem.standard_plot},
     nanothickness |-> {PullReading(r) : r \in rem.nanothickness}]

\* a pull whose clearing misses the table it does not reload
PulledStore_keepNano(st, rem) ==
    [users |-> {PullUser(r) : r \in rem.users},
     devices |-> {PullDevice(r) : r \in rem.devices},
     measurements |->
        {PullMeasurement(r) :
            r \in {m \in rem.measurements :
                    \E d \in rem.devices : d.id = m.device_id}},
     cole_cole |-> {PullReading(r) : r \in rem.cole_cole},
     standard_plot |-> {PullReading(r) : r \in rem.standard_plot},
     nanothickness |-> st.nanothickness]

\* the rows the pull inserts into the cleared store
PulledStore(st, rem) ==
    LET c == ClearedStore(st)
    IN [users |-> c.users \cup {PullUser(r) : r \in rem.users},
        devices |-> c.devices \cup {PullDevice(r) : r \in rem.devices},
        measurements |-> c.measurements \cup
           {PullMeasurement(r) :
               r \in {m \in rem.measurements :
                       \E d \in rem.devices : d.id = m.device_id}},
        cole_cole |-> c.cole_cole \cup {PullReading(r) : r \in rem.cole_cole},
        standard_plot |->
           c.standard_plot \cup {PullReading(r) : r \in rem.standard_plot},
        nanothickness |-> c.nanothickness]

\* PRIMARY KEY of a table
UniqueIds(rows) == \A a, b \in rows : a.id = b.id => a = b

\* the constraints with PRAGMA foreign_keys left off
SchemaOk_noForeignKeys(st) ==
    /\ UniqueIds(st.users) /\ UniqueIds(st.devices)
    /\ UniqueIds(st.measurements) /\ UniqueIds(st.cole_cole)
    /\ UniqueIds(st.standard_plot) /\ UniqueIds(st.nanothickness)
    /\ \A a, b \in st.users : a.username = b.username => a = b
    /\ \A a, b \in st.devices : a.name = b.name => a = b
    /\ \A a, b \in st.measurements :
          (a.device_id = b.device_id /\ a.num_order # NoOrder
             /\ a.num_order = b.num_order) => a = b

\* constraints of the local schema (migrations.py) on a whole store
SchemaOk(st) ==
    /\ UniqueIds(st.users) /\ UniqueIds(st.devices)
    /\ UniqueIds(st.measurements) /\ UniqueIds(st.cole_cole)
    /\ UniqueIds(st.standard_plot) /\ UniqueIds(st.nanothickness)
    /\ \A a, b \in st.users : a.username = b.username => a = b
    /\ \A a, b \in st.devices : a.name = b.name => a = b
    /\ \A a, b \in st.measurements :
          (a.device_id = b.device_id /\ a.num_order # NoOrder
             /\ a.num_order = b.num_order) => a = b
    /\ \A m \in st.measurements : \E d \in st.devices : d.id = m.device_id
    /\ \A k \in Kinds : \A r \in st[k] :
          \E m \in st.measurements : m.id = r.measurement_id

\* a pull that commits the DELETEs before it reads the server
sync_server_to_sqlite_commitsClear(st, rem, connected) ==
    LET new == PulledStore(st, rem)
    IN IF ~connected THEN [res |-> "Connectivity", local |-> ClearedStore(st)]
       ELSE IF ~SchemaOk(new) THEN [res |-> "Integrity", local |-> st]
       ELSE [res |-> "ok", local |-> new]

\* sync_server_to_sqlite: its outcome and the local store it leaves
sync_server_to_sqlite(st, rem, connected) ==
    LET new == PulledStore(st, rem)
    IN IF ~connected THEN [res |-> "Connectivity", local |-> st]
       ELSE IF ~SchemaOk(new) THEN [res |-> "Integrity", local |-> st]
       ELSE [res |-> "ok", local |-> new]

(***************************************************************************)
(* Measurement service.                                                     *)
(***************************************************************************)
\* datetime.utcnow(): later at every call; read off the identifiers drawn
utcnow(uuid) == 10 + uuid

\* a duplicate check that forgets the device
NameTaken_anyDevice(st, device_id, name) ==
    \E m \in st.measurements : m.name = name /\ m.is_delete = 0

\* the duplicate check of create_measurement
NameTaken(st, device_id, name) ==
    \E m \in st.measurements :
        m.device_id = device_id /\ m.name = name /\ m.is_delete = 0

\* the row create_measurement inserts
NewMeasurement(uuid, device_id, name, created_by) ==
    [id |-> uuid, device_id |-> device_id, num_order |-> NoOrder,
     name |-> name, created_by |-> created_by,
     created_at |-> Val("str", utcnow(uuid)), is_delete |-> 0]

\* create_measurement: outcome, local store, folders
create_measurement(st, fs, device_name, device_id, measurement_name, created_by, uuid) ==
    LET name == strip(measurement_name)
    IN IF NameTaken(st, device_id, name)
       THEN [res |-> "Validation", local |-> st, folders |-> fs]
       ELSE IF ~\E d \in st.devices : d.id = device_id
       THEN [res |-> "Integrity", local |-> st, folders |-> fs]
       ELSE [res |-> "ok",
             local |-> [st EXCEPT !.measurements = @ \cup
                          {NewMeasurement(uuid, device_id, name, created_by)}],
             folders |-> fs \cup {<<device_name>>, <<device_name, name>>}]

\* rows of a reading table that belong to a measurement and are not deleted
LiveReadings(st, kind, measurement_id) ==
    {r \in st[kind] : r.measurement_id = measurement_id /\ r.is_delete = 0}

\* has_cole_cole, has_standard_plot, has_nanothickness
has_reading(st, kind, measurement_id) ==
    LiveReadings(st, kind, measurement_id) # {}

\* the ownership query without its is_delete condition
is_measurement_owner_anyRow(st, measurement_id, username) ==
    \E m \in st.measurements :
        m.id = measurement_id /\ m.created_by = username

\* is_measurement_owner
is_measurement_owner(st, measurement_id, username) ==
    \E m \in st.measurements :
        m.id = measurement_id /\ m.is_delete = 0 /\ m.created_by = username

\* the rows get_measurement_id and soft_delete_measurement select by name
RowsByName(st, device_name, measurement_name) ==
    {m \in st.measurements :
        /\ m.name = measurement_name
        /\ m.is_delete = 0
        /\ \E d \in st.devices : d.id = m.device_id /\ d.name = device_name}

\* an insert that stores equal records of the table once
NewReadings_dedup(measurement_id, df, first) ==
    {[id |-> first + i - 1, measurement_id |-> measurement_id,
      vals |-> float(df[i]), is_delete |-> 0] :
        i \in {j \in 1..Len(df) : \A h \in 1..(j - 1) : df[h] # df[j]}}

\* the rows one insert_* call adds: one per record, each with a fresh uuid
NewReadings(measurement_id, df, first) ==
    {[id |-> first + i - 1, measurement_id |-> measurement_id,
      vals |-> float(df[i]), is_delete |-> 0] : i \in 1..Len(df)}

\* insert_cole_cole, insert_standard_plot, insert_nanothickness
insert_reading(st, kind, measurement_id, df, first) ==
    IF df # <<>> /\ ~\E m \in st.measurements : m.id = measurement_id
    THEN [res |-> "Integrity", local |-> st, drawn |-> 0]
    ELSE [res |-> "ok",
          local |-> [st EXCEPT ![kind] =
                        @ \cup NewReadings(measurement_id, df, first)],
          drawn |-> Len(df)]

(***************************************************************************)
(* Push: local -> remote.                                                   *)
(***************************************************************************)
Max(S) == CHOOSE x \in S : \A y \in S : y <= x

\* the next order number taken over the measurements of all devices
NextOrder_anyDevice(rem, device_id) ==
    LET orders == UNION {m.num_order : m \in rem.measurements}
    IN IF orders = {} THEN 1 ELSE Max(orders) + 1

\* the largest order number of the device, not incremented
NextOrder_noIncrement(rem, device_id) ==
    LET orders == UNION {m.num_order : m \in {x \in rem.measurements :
                                                x.device_id = device_id}}
    IN IF orders = {} THEN 1 ELSE Max(orders)

\* SELECT COALESCE(MAX(num_order), 0) + 1 FROM measurements WHERE device_id
NextOrder(rem, device_id) ==
    LET orders == UNION {m.num_order : m \in {x \in rem.measurements :
                                                x.device_id = device_id}}
    IN IF orders = {} THEN 1 ELSE Max(orders) + 1

\* INSERT INTO measurements ... ON CONFLICT (id) DO NOTHING
InsertMeasurement(rem, row, num_order) ==
    IF \E m \in rem.measurements : m.id = row.id
    THEN rem
    ELSE [rem EXCEPT !.measurements = @ \cup
            {[id |-> row.id, device_id |-> row.device_id,
              num_order |-> {num_order}, name |-> row.name,
              created_by |-> row.created_by, created_at |-> row.created_at,
              is_delete |-> FALSE]}]

\* sync_measurement_to_server: outcome and the remote store after its commit
sync_measurement_to_server(st, rem, measurement_id) ==
    LET rows == {m \in st.measurements :
                    m.id = measurement_id /\ m.is_delete = 0}
    IN IF rows = {}
       THEN [res |-> "NotFound", remote |-> rem]
       ELSE LET row == CHOOSE m \in rows : TRUE
            IN [res |-> "ok",
                remote |-> InsertMeasurement(rem, row,
                                             NextOrder(rem, row.device_id))]

\* the remote rows one reading loop of sync_sqlite_to_server inserts
RECURSIVE PushedRows(_, _, _)
PushedRows(rows, measurement_id, first) ==
    IF rows = {} THEN {}
    ELSE LET r == CHOOSE x \in rows : \A y \in rows : x.id <= y.id
         IN {[id |-> first, measurement_id |-> measurement_id,
              vals |-> r.vals, is_delete |-> FALSE]}
            \cup PushedRows(rows \ {r}, measurement_id, first + 1)

\* the local rows one push of a measurement sends
PushSource(st, kind, measurement_id) == LiveReadings(st, kind, measurement_id)

\* number of identifiers one push of a measurement draws
PushCount(st, measurement_id) ==
    Cardinality(PushSource(st, "cole_cole", measurement_id))
    + Cardinality(PushSource(st, "standard_plot", measurement_id))
    + Cardinality(PushSource(st, "nanothickness", measurement_id))

\* the three reading loops and the commit that ends them
PushReadings(st, rem, measurement_id, first) ==
    LET cc == PushSource(st, "cole_cole", measurement_id)
        sp == PushSource(st, "standard_plot", measurement_id)
        nn == PushSource(st, "nanothickness", measurement_id)
    IN [rem EXCEPT
          !.cole_cole = @ \cup PushedRows(cc, measurement_id, first),
          !.standard_plot =
              @ \cup PushedRows(sp, measurement_id, first + Cardinality(cc)),
          !.nanothickness =
              @ \cup PushedRows(nn, measurement_id,
                                first + Cardinality(cc) + Cardinality(sp))]

\* the remote transaction of a push that fails, if any
FailPoints == {"none", "measurement", "readings"}

\* a push that opens the server connection before it reads the local row
sync_sqlite_to_server_connectFirst(st, rem, measurement_id, fail, first) ==
    LET m == sync_measurement_to_server(st, rem, measurement_id)
    IN IF fail = "measurement"
       THEN [res |-> "Connectivity", remote |-> rem, drawn |-> 0]
       ELSE IF m.res # "ok" THEN [res |-> m.res, remote |-> rem, drawn |-> 0]
       ELSE IF fail = "readings"
       THEN [res |-> "Connectivity", remote |-> m.remote, drawn |-> 0]
       ELSE [res |-> "ok",
             remote |-> PushReadings(st, m.remote, measurement_id, first),
             drawn |-> PushCount(st, measurement_id)]

\* a push that sends reading rows only with a measurement new to the remote
sync_sqlite_to_server_once(st, rem, measurement_id, fail, first) ==
    LET m == sync_measurement_to_server(st, rem, measurement_id)
    IN IF m.res # "ok" THEN [res |-> m.res, remote |-> rem, drawn |-> 0]
       ELSE IF fail = "measurement"
       THEN [res |-> "Connectivity", remote |-> rem, drawn |-> 0]
       ELSE IF fail = "readings"
       THEN [res |-> "Connectivity", remote |-> m.remote, drawn |-> 0]
       ELSE IF m.remote = rem
       THEN [res |-> "ok", remote |-> rem, drawn |-> 0]
       ELSE [res |-> "ok",
             remote |-> PushReadings(st, m.remote, measurement_id, first),
             drawn |-> PushCount(st, measurement_id)]

\* a push that commits after each reading loop and fails in the second
sync_sqlite_to_server_perLoop(st, rem, measurement_id, fail, first) ==
    LET m == sync_measurement_to_server(st, rem, measurement_id)
        cc == PushSource(st, "cole_cole", measurement_id)
    IN IF m.res # "ok" THEN [res |-> m.res, remote |-> rem, drawn |-> 0]
       ELSE IF fail = "measurement"
       THEN [res |-> "Connectivity", remote |-> rem, drawn |-> 0]
       ELSE IF fail = "readings"
       THEN [res |-> "Connectivity",
             remote |-> [m.remote EXCEPT !.cole_cole =
                            @ \cup PushedRows(cc, measurement_id, first)],
             drawn |-> Cardinality(cc)]
       ELSE [res |-> "ok",
             remote |-> PushReadings(st, m.remote, measurement_id, first),
             drawn |-> PushCount(st, measurement_id)]

\* sync_sqlite_to_server: outcome, remote store, identifiers drawn
sync_sqlite_to_server(st, rem, measurement_id, fail, first) ==
    LET m == sync_measurement_to_server(st, rem, measurement_id)
    IN IF m.res # "ok" THEN [res |-> m.res, remote |-> rem, drawn |-> 0]
       ELSE IF fail = "measurement"
       THEN [res |-> "Connectivity", remote |-> rem, drawn |-> 0]
       ELSE IF fail = "readings"
       THEN [res |-> "Connectivity", remote |-> m.remote, drawn |-> 0]
       ELSE [res |-> "ok",
             remote |-> PushReadings(st, m.remote, measurement_id, first),
             drawn |-> PushCount(st, measurement_id)]

(***************************************************************************)
(* Soft delete.                                                             *)
(***************************************************************************)
\* an UPDATE of a reading table without its WHERE clause
FlagReadings_all(rows, measurement_id, flag) ==
    {[r EXCEPT !.is_delete = flag] : r \in rows}

\* UPDATE <reading table> SET is_delete = flag WHERE measurement_id = ?
FlagReadings(rows, measurement_id, flag) ==
    {IF r.measurement_id = measurement_id
     THEN [r EXCEPT !.is_delete = flag] ELSE r : r \in rows}

\* UPDATE measurements SET is_delete = flag WHERE id = ?
FlagMeasurement(rows, measurement_id, flag) ==
    {IF m.id = measurement_id THEN [m EXCEPT !.is_delete = flag] ELSE m :
        m \in rows}

\* the four local UPDATE statements of soft_delete_measurement
LocalSoftDelete(st, measurement_id) ==
    [st EXCEPT
       !.measurements = FlagMeasurement(@, measurement_id, 1),
       !.cole_cole = FlagReadings(@, measurement_id, 1),
       !.standard_plot = FlagReadings(@, measurement_id, 1),
       !.nanothickness = FlagReadings(@, measurement_id, 1)]

\* _sync_soft_delete_to_server
_sync_soft_delete_to_server(rem, measurement_id) ==
    [rem EXCEPT
       !.measurements = FlagMeasurement(@, measurement_id, TRUE),
       !.cole_cole = FlagReadings(@, measurement_id, TRUE),
       !.standard_plot = FlagReadings(@, measurement_id, TRUE),
       !.nanothickness = FlagReadings(@, measurement_id, TRUE)]

\* the creator check of soft_delete_measurement
DeleteAllowed(created_by, username) == created_by = username

\* the remote store after the propagation attempt of a soft delete
PropagateDelete(rem, measurement_id, connected) ==
    IF connected THEN _sync_soft_delete_to_server(rem, measurement_id)
    ELSE rem

\* a soft delete that undoes the local delete when the propagation fails
soft_delete_measurement_rollback(st, rem, row, username, connected) ==
    IF ~DeleteAllowed(row.created_by, username)
    THEN [res |-> "Permission", local |-> st, remote |-> rem]
    ELSE [res |-> IF connected THEN "ok" ELSE "PartialFailure",
          local |-> IF connected THEN LocalSoftDelete(st, row.id) ELSE st,
          remote |-> PropagateDelete(rem, row.id, connected)]

\* soft_delete_measurement once fetchone() has returned row
soft_delete_measurement(st, rem, row, username, connected) ==
    IF ~DeleteAllowed(row.created_by, username)
    THEN [res |-> "Permission", local |-> st, remote |-> rem]
    ELSE [res |-> IF connected THEN "ok" ELSE "PartialFailure",
          local |-> LocalSoftDelete(st, row.id),
          remote |-> PropagateDelete(rem, row.id, connected)]

(***************************************************************************)
(* Filesystem mirror.                                                       *)
(***************************************************************************)
\* a walk that also removes the folders no live row stands for
sync_db_to_filesystem_prune(st, fs) ==
    LET devs == {d \in st.devices : d.is_delete = 0}
    IN {<<d.name>> : d \in devs}
          \cup UNION {{<<d.name, m.name>> :
                         m \in {x \in st.measurements :
                                   /\ x.device_id = d.id
                                   /\ x.is_delete = 0
                                   /\ x.name # <<>>}} : d \in devs}

\* sync_db_to_filesystem: the folders after the walk
sync_db_to_filesystem(st, fs) ==
    LET devs == {d \in st.devices : d.is_delete = 0}
    IN fs \cup {<<d.name>> : d \in devs}
          \cup UNION {{<<d.name, m.name>> :
                         m \in {x \in st.measurements :
                                   /\ x.device_id = d.id
                                   /\ x.is_delete = 0
                                   /\ x.name # <<>>}} : d \in devs}

(***************************************************************************)
(* The service interface: each function called with any argument.          *)
(***************************************************************************)
\* a measurement id no table holds
UnknownId == 999

\* the tables a CSV ingestor returns
Tables == {<<Val("int", 5)>>, <<Val("int", 5), Val("int", 5)>>}

MeasurementIds == {m.id : m \in local.measurements} \cup {UnknownId}

MeasurementNames == {strip(x) : x \in NameInputs} \cup {<<"Y">>}

\* reading rows of the local store whose measurement the remote lacks
UnpushedReadings(st, rem) ==
    UNION {{r \in st[k] :
              ~\E m \in rem.measurements : m.id = r.measurement_id} :
           k \in Kinds}

\* last: what the last call was and how it ended.  An argument is recorded
\* when the call got far enough to read it; n counts the reading rows the
\* call inserted (insert, push) or discarded with their never pushed
\* measurement (pull).
Pull ==
    \E connected \in BOOLEAN :
        LET r == sync_server_to_sqlite(local, remote, connected)
        IN /\ local' = r.local
           /\ last' = [NoOp EXCEPT !.op = "pull", !.res = r.res,
                          !.n = IF r.res = "ok"
                                THEN Cardinality(UnpushedReadings(local, remote))
                                ELSE 0]
           /\ UNCHANGED <<schema, remote, folders, nextUuid, session>>

Create ==
    \E d \in local.devices, n \in NameInputs :
        IF NameTaken(local, d.id, strip(n))
        THEN LET r == create_measurement(local, folders, d.name, d.id, n,
                                         NoUser, nextUuid)
             IN /\ local' = r.local
                /\ folders' = r.folders
                /\ last' = [NoOp EXCEPT !.op = "create", !.res = r.res,
                                        !.dev = d.name, !.name = n]
                /\ UNCHANGED <<schema, remote, nextUuid, session>>
        ELSE \E u \in Creators :
             LET r == create_measurement(local, folders, d.name, d.id, n, u,
                                         nextUuid)
             IN /\ nextUuid <= MaxUuid
                /\ local' = r.local
                /\ folders' = r.folders
                /\ nextUuid' = nextUuid + 1
                /\ last' = [NoOp EXCEPT !.op = "create", !.res = r.res,
                               !.mid = nextUuid, !.dev = d.name, !.name = n,
                               !.user = u]
                /\ UNCHANGED <<schema, remote, session>>

Insert ==
    \E k \in Kinds, id \in MeasurementIds, df \in Tables :
        LET r == insert_reading(local, k, id, df, nextUuid)
        IN /\ nextUuid + r.drawn - 1 <= MaxUuid
           /\ local' = r.local
           /\ nextUuid' = nextUuid + r.drawn
           /\ last' = [NoOp EXCEPT !.op = "insert", !.res = r.res,
                                   !.mid = id, !.kind = k,
                                   !.n = IF r.res = "ok" THEN Len(df) ELSE 0]
           /\ UNCHANGED <<schema, remote, folders, session>>

\* a push that writes the order number the server assigned back to the
\* local row
Push_writeBack ==
    \E id \in MeasurementIds :
        \E fail \in IF sync_measurement_to_server(local, remote, id).res = "ok"
                    THEN FailPoints ELSE {"none"} :
        LET r == sync_sqlite_to_server(local, remote, id, fail, nextUuid)
        IN /\ nextUuid + r.drawn - 1 <= MaxUuid
           /\ remote' = r.remote
           /\ local' = [local EXCEPT !.measurements =
                 {IF m.id = id /\ r.res = "ok"
                  THEN [m EXCEPT !.num_order =
                           UNION {x.num_order : x \in {y \in r.remote.measurements :
                                                          y.id = id}}]
                  ELSE m : m \in @}]
           /\ nextUuid' = nextUuid + r.drawn
           /\ last' = [NoOp EXCEPT !.op = "push", !.res = r.res, !.mid = id,
                                   !.n = r.drawn]
           /\ UNCHANGED <<schema, folders, session>>

Push ==
    \E id \in MeasurementIds :
        \E fail \in IF sync_measurement_to_server(local, remote, id).res = "ok"
                    THEN FailPoints ELSE {"none"} :
        LET r == sync_sqlite_to_server(local, remote, id, fail, nextUuid)
        IN /\ nextUuid + r.drawn - 1 <= MaxUuid
           /\ remote' = r.remote
           /\ nextUuid' = nextUuid + r.drawn
           /\ last' = [NoOp EXCEPT !.op = "push", !.res = r.res, !.mid = id,
                                   !.n = r.drawn]
           /\ UNCHANGED <<schema, local, folders, session>>

Delete ==
    \E d \in DeviceNames, n \in MeasurementNames :
        LET rows == RowsByName(local, d, n)
            rec == [NoOp EXCEPT !.op = "delete", !.dev = d, !.name = n]
        IN IF rows = {}
           THEN /\ last' = [rec EXCEPT !.res = "NotFound"]
                /\ UNCHANGED <<schema, local, remote, folders, nextUuid, session>>
           ELSE \E row \in rows, u \in Usernames :
                \E connected \in IF DeleteAllowed(row.created_by, u)
                                 THEN BOOLEAN ELSE {TRUE} :
                  LET r == soft_delete_measurement(local, remote, row, u,
                                                   connected)
                  IN /\ local' = r.local
                     /\ remote' = r.remote
                     /\ last' = [rec EXCEPT !.res = r.res, !.mid = row.id,
                                            !.user = u]
                     /\ UNCHANGED <<schema, folders, nextUuid, session>>

Next == Pull \/ Create \/ Insert \/ Push \/ Delete

Spec == Init /\ [][Next]_vars

(***************************************************************************)
(* The application (ui/app.py run): one action per button handler.  A      *)
(* handler runs to its end or to the exception that stops it.              *)
(***************************************************************************)
\* identifiers uuid4() hands out in one behaviour of the application; one
\* accepted table takes the inserted row and one per row pushed
MaxUiUuid == MaxUuid + 1

\* names typed into the login form
LoginNames == Usernames \cup {"carol", "mallory"}

LoggedIn == session.bootstrapped /\ session.username # NoUser

\* the keys of get_devices_and_measurements: devices of the sidebar
ListedDevices(st) == {d \in st.devices : d.is_delete = 0}

\* get_devices_and_measurements: the measurement names listed under a device
ListedNames(st, d) ==
    {m.name : m \in {x \in st.measurements :
                        x.device_id = d.id /\ x.is_delete = 0
                        /\ x.name # <<>>}}

\* the check without the comparison of created_by with the user
is_measurement_owner_any(st, measurement_id, username) ==
    \E m \in st.measurements : m.id = measurement_id /\ m.is_delete = 0

\* can_edit of run
can_edit(st, measurement_id, username) ==
    is_measurement_owner(st, measurement_id, username)

\* _bootstrap: migrate, pull, then mark the session
UIBootstrap ==
    /\ ~session.bootstrapped
    /\ \E connected \in BOOLEAN :
          LET r == sync_server_to_sqlite(local, remote, connected)
          IN /\ local' = r.local
             /\ session' = IF r.res = "ok"
                           THEN [bootstrapped |-> TRUE, username |-> NoUser]
                           ELSE session
             /\ last' = [NoOp EXCEPT !.op = "bootstrap", !.res = r.res]
             /\ UNCHANGED <<schema, remote, folders, nextUuid>>

\* the Login button
UILogin ==
    /\ session.bootstrapped /\ session.username = NoUser
    /\ \E u \in LoginNames :
          LET rows == {x \in local.users : x.username = u}
              rec == [NoOp EXCEPT !.op = "login"]
          IN IF rows = {}
             THEN /\ last' = [rec EXCEPT !.res = "NotFound"]
                  /\ UNCHANGED <<schema, local, remote, folders, nextUuid, session>>
             ELSE \E row \in rows :
                  IF ~row.active
                  THEN /\ last' = [rec EXCEPT !.res = "Inactive"]
                       /\ UNCHANGED <<schema, local, remote, folders, nextUuid,
                                      session>>
                  ELSE \E password_ok \in BOOLEAN :
                       IF ~password_ok
                       THEN /\ last' = [rec EXCEPT !.res = "BadPassword"]
                            /\ UNCHANGED <<schema, local, remote, folders,
                                           nextUuid, session>>
                       ELSE \E connected \in BOOLEAN :
                            LET r == sync_server_to_sqlite(local, remote,
                                                           connected)
                            IN /\ session' = [session EXCEPT
                                                 !.username = row.username]
                               /\ local' = r.local
                               /\ folders' =
                                     sync_db_to_filesystem(r.local, folders)
                               /\ last' = [rec EXCEPT
                                              !.user = row.username,
                                              !.res = IF r.res = "ok" THEN "ok"
                                                      ELSE "PullWarning"]
                               /\ UNCHANGED <<schema, remote, nextUuid>>

\* the Logout button
UILogout ==
    /\ LoggedIn
    /\ session' = [session EXCEPT !.username = NoUser]
    /\ last' = [NoOp EXCEPT !.op = "logout"]
    /\ UNCHANGED <<schema, local, remote, folders, nextUuid>>

\* the Create button of the new measurement form
UICreate ==
    /\ LoggedIn
    /\ \E d \in ListedDevices(local), n \in NameInputs :
          LET r == create_measurement(local, folders, d.name, d.id, n,
                                      session.username, nextUuid)
          IN /\ strip(n) # <<>>
             /\ r.res = "ok" => nextUuid <= MaxUiUuid
             /\ local' = r.local
             /\ folders' = r.folders
             /\ nextUuid' = IF r.res = "ok" THEN nextUuid + 1 ELSE nextUuid
             /\ last' = [NoOp EXCEPT !.op = "ui_create", !.res = r.res,
                            !.mid = IF r.res = "ok" THEN nextUuid ELSE 0,
                            !.user = session.username]
             /\ UNCHANGED <<schema, remote, session>>

\* insert_* then sync_sqlite_to_server, as both buttons of a view run them
AcceptTable(op, again) ==
    /\ LoggedIn
    /\ \E d \in ListedDevices(local) :
       \E name \in ListedNames(local, d) :
       \E row \in RowsByName(local, d.name, name) :
          /\ can_edit(local, row.id, session.username)
          /\ \E k \in Kinds :
                /\ has_reading(local, k, row.id) = again
                /\ \E df \in Tables, fail \in FailPoints :
                      LET i == insert_reading(local, k, row.id, df, nextUuid)
                          p == sync_sqlite_to_server(i.local, remote, row.id,
                                                     fail, nextUuid + i.drawn)
                      IN /\ nextUuid + Len(df) - 1 <= MaxUiUuid
                         /\ nextUuid + i.drawn + p.drawn - 1 <= MaxUiUuid
                         /\ local' = i.local
                         /\ remote' = p.remote
                         /\ nextUuid' = nextUuid + i.drawn + p.drawn
                         /\ last' = [NoOp EXCEPT !.op = op, !.res = p.res,
                                        !.mid = row.id, !.kind = k,
                                        !.user = session.username]
                         /\ UNCHANGED <<schema, folders, session>>

\* the "Add ... to DB" button, shown while the measurement has no live row
UIAdd == AcceptTable("ui_add", FALSE)

\* the "Sync again" button, shown once the measurement has a live row
UISyncAgain == AcceptTable("ui_sync_again", TRUE)

\* the "Delete measurement" button
UIDelete ==
    /\ LoggedIn
    /\ \E d \in ListedDevices(local) :
       \E name \in ListedNames(local, d) :
       \E row \in RowsByName(local, d.name, name) :
       \E connected \in IF DeleteAllowed(row.created_by, session.username)
                        THEN BOOLEAN ELSE {TRUE} :
          LET r == soft_delete_measurement(local, remote, row,
                                           session.username, connected)
          IN /\ local' = r.local
             /\ remote' = r.remote
             /\ last' = [NoOp EXCEPT !.op = "ui_delete", !.res = r.res,
                            !.mid = row.id, !.user = session.username]
             /\ UNCHANGED <<schema, folders, nextUuid, session>>

NextUI ==
    \/ UIBootstrap \/ UILogin \/ UILogout \/ UICreate
    \/ UIAdd \/ UISyncAgain \/ UIDelete

SpecUI == Init /\ [][NextUI]_vars

(***************************************************************************)
(* The lookups of the measurement service, called on local databases the   *)
(* schema admits: both devices, any of three measurements, each row with   *)
(* either value of is_delete.                                              *)
(***************************************************************************)
\* get_device_id: SELECT id FROM devices WHERE name = ?, then fetchone
get_device_id(st, device_name) ==
    LET rows == {d \in st.devices : d.name = device_name}
    IN IF rows = {} THEN [res |-> "NotFound", id |-> 0]
       ELSE [res |-> "ok", id |-> (CHOOSE d \in rows : TRUE).id]

\* get_measurement_id: what fetchone may return, or not found
get_measurement_id(st, device_name, measurement_name) ==
    LET rows == RowsByName(st, device_name, measurement_name)
    IN IF rows = {} THEN {[res |-> "NotFound", id |-> 0]}
       ELSE {[res |-> "ok", id |-> m.id] : m \in rows}

\* the value of a column in a row of the drawn database
Flags == {0, 1}

QueryDevices ==
    {{[PullDevice(r) EXCEPT !.is_delete = f[r.id]] : r \in RemoteDevices0} :
        f \in [{r.id : r \in RemoteDevices0} -> Flags]}

\* the mirrored measurements and one created locally under the other device
QueryCandidates ==
    {PullMeasurement(r) : r \in RemoteMeasurements0}
    \cup {NewMeasurement(1, 102, <<"X">>, "bob")}

QueryMeasurements ==
    UNION {{{[m EXCEPT !.is_delete = f[m.id]] : m \in S} :
              f \in [{m.id : m \in S} -> Flags]} : S \in SUBSET QueryCandidates}

QueryInit ==
    /\ local \in {[EmptyStore EXCEPT !.devices = d, !.measurements = m] :
                     d \in QueryDevices, m \in QueryMeasurements}
    /\ remote = EmptyStore
    /\ folders = {}
    /\ nextUuid = 2
    /\ session = [bootstrapped |-> FALSE, username |-> NoUser]
    /\ last = NoOp
    /\ schema = CurrentColumns

GetDeviceId ==
    \E d \in DeviceNames \cup {"C"} :
        LET r == get_device_id(local, d)
        IN /\ last' = [NoOp EXCEPT !.op = "get_device_id", !.res = r.res,
                                   !.dev = d, !.mid = r.id]
           /\ UNCHANGED <<schema, local, remote, folders, nextUuid, session>>

GetMeasurementId ==
    \E d \in DeviceNames \cup {"C"}, n \in MeasurementNames :
    \E r \in get_measurement_id(local, d, n) :
        /\ last' = [NoOp EXCEPT !.op = "get_measurement_id", !.res = r.res,
                                !.dev = d, !.name = n, !.mid = r.id]
        /\ UNCHANGED <<schema, local, remote, folders, nextUuid, session>>

IsMeasurementOwner ==
    \E id \in MeasurementIds, u \in Usernames :
        /\ last' = [NoOp EXCEPT
                       !.op = "is_measurement_owner",
                       !.res = IF is_measurement_owner(local, id, u)
                               THEN "True" ELSE "False",
                       !.mid = id, !.user = u]
        /\ UNCHANGED <<schema, local, remote, folders, nextUuid, session>>

QueryNext == GetDeviceId \/ GetMeasurementId \/ IsMeasurementOwner

SpecQuery == QueryInit /\ [][QueryNext]_vars

(***************************************************************************)
(* The listings of the measurement service, called on local databases the  *)
(* schema admits.                                                          *)
(***************************************************************************)
\* the LEFT JOIN without its m.is_delete = 0 condition
JoinedMeasurements_any(st, d) ==
    {m \in st.measurements : m.device_id = d.id}

\* LEFT JOIN measurements m ON d.id = m.device_id AND m.is_delete = 0
JoinedMeasurements(st, d) ==
    {m \in st.measurements : m.device_id = d.id /\ m.is_delete = 0}

\* ORDER BY m.created_at: the orders SQLite may return the rows in
OrderedByCreatedAt(rows) ==
    {s \in [1..Cardinality(rows) -> rows] :
        /\ \A i, j \in DOMAIN s : i # j => s[i] # s[j]
        /\ \A i, j \in DOMAIN s : i < j => s[i].created_at.v <= s[j].created_at.v}

\* if measurement_name: data[device_name].append(measurement_name)
AppendNames(s) ==
    LET named == SelectSeq(s, LAMBDA m : m.name # <<>>)
    IN [i \in 1..Len(named) |-> named[i].name]

\* get_devices_and_measurements: the mappings the call may return
get_devices_and_measurements(st) ==
    LET devs == ListedDevices(st)
        lists(d) == {AppendNames(s) :
                        s \in OrderedByCreatedAt(JoinedMeasurements(st, d))}
    IN {f \in [{d.name : d \in devs} -> UNION {lists(d) : d \in devs}] :
           \A d \in devs : f[d.name] \in lists(d)}

\* the mirrored measurements, and one created locally under each device
ListCandidates ==
    {PullMeasurement(r) : r \in RemoteMeasurements0}
    \cup {NewMeasurement(1, 101, <<"X">>, "bob"),
          NewMeasurement(2, 102, <<"X">>, "alice")}

ListMeasurements ==
    UNION {{{[m EXCEPT !.is_delete = f[m.id]] : m \in S} :
              f \in [{m.id : m \in S} -> Flags]} : S \in SUBSET ListCandidates}

ListInit ==
    /\ local \in {[EmptyStore EXCEPT !.devices = d, !.measurements = m] :
                     d \in QueryDevices, m \in ListMeasurements}
    /\ remote = EmptyStore
    /\ folders = {}
    /\ nextUuid = 3
    /\ session = [bootstrapped |-> FALSE, username |-> NoUser]
    /\ last = NoOp
    /\ schema = CurrentColumns

GetDevicesAndMeasurements ==
    \E data \in get_devices_and_measurements(local) :
        /\ last' = [NoOp EXCEPT !.op = "get_devices_and_measurements",
                                !.out = data]
        /\ UNCHANGED <<schema, local, remote, folders, nextUuid, session>>

ListNext == GetDevicesAndMeasurements

SpecList == ListInit /\ [][ListNext]_vars

(***************************************************************************)
(* get_device_structure.  A stored text is a sequence of JSON tokens, so   *)
(* that json.loads is computed.                                            *)
(***************************************************************************)
\* number of tokens of the longest stored structure text
MaxJson == 4

JsonTokens == {"[", "]", ",", "1"}

JsonFail == [ok |-> FALSE, v |-> NULL, next |-> 0]

\* json.loads on a value that starts at token i: the value and the token
\* after it
RECURSIVE ParseValue(_, _)
RECURSIVE ParseItems(_, _, _)
ParseValue(s, i) ==
    IF i > Len(s) THEN JsonFail
    ELSE IF s[i] = "1" THEN [ok |-> TRUE, v |-> Val("int", 1), next |-> i + 1]
    ELSE IF s[i] = "["
    THEN IF i + 1 <= Len(s) /\ s[i + 1] = "]"
         THEN [ok |-> TRUE, v |-> Val("list", <<>>), next |-> i + 2]
         ELSE ParseItems(s, i + 1, <<>>)
    ELSE JsonFail

ParseItems(s, i, acc) ==
    LET e == ParseValue(s, i)
    IN IF ~e.ok \/ e.next > Len(s) THEN JsonFail
       ELSE IF s[e.next] = "]"
       THEN [ok |-> TRUE, v |-> Val("list", Append(acc, e.v)),
             next |-> e.next + 1]
       ELSE IF s[e.next] = ","
       THEN ParseItems(s, e.next + 1, Append(acc, e.v))
       ELSE JsonFail

\* json.loads: the parsed value, or JSONDecodeError
json_loads(s) ==
    LET r == ParseValue(s, 1)
    IN IF r.ok /\ r.next = Len(s) + 1
       THEN [res |-> "ok", v |-> r.v]
       ELSE [res |-> "JSONDecodeError", v |-> NULL]

\* {"_error": "Invalid JSON in structure_json"}
ErrorPayload == Val("dict", "_error")

\* Python's None
None == NULL

\* a lookup that hands the decoding error on to its caller
get_device_structure_raising(st, device_name) ==
    LET rows == {d \in st.devices : d.name = device_name}
    IN IF rows = {} THEN [res |-> "ok", v |-> None]
       ELSE LET text == (CHOOSE d \in rows : TRUE).structure_json
            IN IF text = NULL \/ text.v = <<>> THEN [res |-> "ok", v |-> None]
               ELSE json_loads(text.v)

\* get_device_structure
get_device_structure(st, device_name) ==
    LET rows == {d \in st.devices : d.name = device_name}
    IN IF rows = {} THEN [res |-> "ok", v |-> None]
       ELSE LET text == (CHOOSE d \in rows : TRUE).structure_json
            IN IF text = NULL \/ text.v = <<>> THEN [res |-> "ok", v |-> None]
               ELSE IF json_loads(text.v).res = "ok"
               THEN [res |-> "ok", v |-> json_loads(text.v).v]
               ELSE [res |-> "ok", v |-> ErrorPayload]

\* the texts the structure_json column of a device may hold
JsonTexts == UNION {[1..n -> JsonTokens] : n \in 0..MaxJson}

\* device A with any structure, flagged or not, and device B with none
StructureDevices ==
    {{[PullDevice(a) EXCEPT !.structure_json = t, !.is_delete = f],
      PullDevice(b)} :
        t \in {NULL} \cup {Val("str", s) : s \in JsonTexts}, f \in Flags,
        a \in {r \in RemoteDevices0 : r.name = "A"},
        b \in {r \in RemoteDevices0 : r.name = "B"}}

StructureInit ==
    /\ local \in {[EmptyStore EXCEPT !.devices = d] : d \in StructureDevices}
    /\ remote = EmptyStore
    /\ folders = {}
    /\ nextUuid = 1
    /\ session = [bootstrapped |-> FALSE, username |-> NoUser]
    /\ last = NoOp
    /\ schema = CurrentColumns

GetDeviceStructure ==
    \E d \in DeviceNames \cup {"C"} :
        LET r == get_device_structure(local, d)
        IN /\ last' = [NoOp EXCEPT !.op = "get_device_structure",
                                   !.res = r.res, !.dev = d, !.out = r.v]
           /\ UNCHANGED <<schema, local, remote, folders, nextUuid, session>>

StructureNext == GetDeviceStructure

SpecStructure == StructureInit /\ [][StructureNext]_vars

(***************************************************************************)
(* migrate_sqlite, run on databases of older versions.  A row is a         *)
(* function from the columns of its table to values.                       *)
(***************************************************************************)
\* the order in which migrate_sqlite goes through the tables
TableOrder ==
    <<"users", "devices", "measurements", "nanothickness", "cole_cole",
      "standard_plot">>

\* the columns of the _add_column_if_missing calls, in their order
AddedColumns ==
    [users |-> <<"role", "active", "hashed_password", "created_at",
                 "is_delete">>,
     devices |-> <<"structure_json", "experiment_by", "created_by",
                   "created_at", "is_delete">>,
     measurements |-> <<"name", "num_order", "created_at", "is_delete">>,
     nanothickness |-> <<"is_delete">>,
     cole_cole |-> <<"is_delete">>,
     standard_plot |-> <<"is_delete">>]

\* the value ALTER TABLE ... ADD COLUMN gives the rows that exist
ColumnDefault(col) == IF col = "is_delete" THEN Val("int", 0) ELSE NULL

\* _existing_columns: PRAGMA table_info
_existing_columns(db, table) == db.schema[table]

\* ALTER TABLE table ADD COLUMN col
AlterAddColumn(db, table, col) ==
    IF col \in db.schema[table]
    THEN [db EXCEPT !.res = "DuplicateColumn"]
    ELSE [db EXCEPT
            !.schema[table] = @ \cup {col},
            !.rows[table] =
                {[c \in DOMAIN r \cup {col} |->
                     IF c = col THEN ColumnDefault(col) ELSE r[c]] : r \in @},
            !.added = @ + 1]

\* an upgrade that adds the column without looking at the table first
_add_column_if_missing_unchecked(db, table, col) ==
    IF db.res # "ok" THEN db ELSE AlterAddColumn(db, table, col)

\* _add_column_if_missing; a statement after an exception is not executed
_add_column_if_missing(db, table, col) ==
    IF db.res # "ok" THEN db
    ELSE IF col \in _existing_columns(db, table) THEN db
    ELSE AlterAddColumn(db, table, col)

\* CREATE TABLE IF NOT EXISTS
CreateTableIfNotExists(db, table) ==
    IF db.res # "ok" \/ db.schema[table] # {} THEN db
    ELSE [db EXCEPT !.schema[table] = CurrentColumns[table]]

RECURSIVE AddColumns(_, _, _)
AddColumns(db, table, cols) ==
    IF cols = <<>> THEN db
    ELSE AddColumns(_add_column_if_missing(db, table, Head(cols)), table,
                    Tail(cols))

\* an upgrade that leaves out the last column of each list
MigrateTable_short(db, table) ==
    AddColumns(CreateTableIfNotExists(db, table), table,
               SubSeq(AddedColumns[table], 1, Len(AddedColumns[table]) - 1))

\* one section of migrate_sqlite
MigrateTable(db, table) ==
    AddColumns(CreateTableIfNotExists(db, table), table, AddedColumns[table])

RECURSIVE MigrateTables(_, _)
MigrateTables(db, tables) ==
    IF tables = <<>> THEN db
    ELSE MigrateTables(MigrateTable(db, Head(tables)), Tail(tables))

\* migrate_sqlite: outcome, schema, rows, number of columns added
migrate_sqlite(sch, rows) ==
    MigrateTables([res |-> "ok", schema |-> sch, rows |-> rows, added |-> 0],
                  TableOrder)

\* a row of an older database: a stored value in each column it has
OldRow(cols) == [c \in cols |-> Val("str", 1)]

\* the column sets an older version of a table may have
OlderColumns(table) ==
    {cols \in SUBSET CurrentColumns[table] : "id" \in cols}

\* databases of older versions: one table with an older column set, each
\* other table missing or current, every table that exists empty or with a row
OldDatabases ==
    UNION {{[schema |-> [t \in DOMAIN CurrentColumns |->
                           IF t = table THEN cols
                           ELSE IF others THEN CurrentColumns[t] ELSE {}],
             populated |-> populated] :
               others \in BOOLEAN, populated \in BOOLEAN,
               cols \in OlderColumns(table)} :
           table \in DOMAIN CurrentColumns}

MigrateInit ==
    /\ \E db \in OldDatabases :
          /\ schema = db.schema
          /\ local = [t \in DOMAIN CurrentColumns |->
                         IF db.populated /\ db.schema[t] # {}
                         THEN {OldRow(db.schema[t])} ELSE {}]
    /\ remote = EmptyStore
    /\ folders = {}
    /\ nextUuid = 1
    /\ session = [bootstrapped |-> FALSE, username |-> NoUser]
    /\ last = NoOp

\* a start of the application: _bootstrap calls migrate_sqlite
Migrate ==
    LET db == migrate_sqlite(schema, local)
    IN /\ schema' = db.schema
       /\ local' = db.rows
       /\ last' = [NoOp EXCEPT !.op = "migrate", !.res = db.res,
                               !.n = db.added]
       /\ UNCHANGED <<remote, folders, nextUuid, session>>

MigrateNext == Migrate

SpecMigrate == MigrateInit /\ [][MigrateNext]_vars

(***************************************************************************)
(* The CSV ingestors.  A header is a sequence of runs of characters, a     *)
(* blank run being " ", so that strip() and lower() are computed.  A table *)
(* is the sequence of its column labels.                                   *)
(***************************************************************************)
\* number of columns a drawn file has beyond the required ones of its kind
MaxExtra == 1

\* str.lower() on the spellings the drawn files use
lower(run) ==
    CASE run = "Frequency" -> "frequency"
      [] run = "TIME" -> "time"
      [] run = "Pos1" -> "pos1"
      [] OTHER -> run

\* c.strip().lower()
NormalizeHeader(h) == [i \in 1..Len(strip(h)) |-> lower(strip(h)[i])]

\* df.columns = [c.strip().lower() for c in df.columns]
NormalizeColumns(columns) ==
    [i \in 1..Len(columns) |-> NormalizeHeader(columns[i])]

Range(s) == {s[i] : i \in 1..Len(s)}

\* df[labels]: for each label in turn, every column that carries it
RECURSIVE ColumnsLabelled(_, _)
ColumnsLabelled(cols, label) ==
    IF cols = <<>> THEN <<>>
    ELSE (IF Head(cols) = label THEN <<label>> ELSE <<>>)
         \o ColumnsLabelled(Tail(cols), label)

RECURSIVE SelectColumns(_, _)
SelectColumns(cols, labels) ==
    IF labels = <<>> THEN <<>>
    ELSE ColumnsLabelled(cols, Head(labels))
         \o SelectColumns(cols, Tail(labels))

\* the set difference printed by the ValueError
MissingColumns_all(required, cols) == required

MissingColumns(required, cols) == required \ Range(cols)

ColeColeColumns ==
    << <<"frequency">>, <<"resistance">>, <<"reactance">>, <<"capacitance">> >>

StandardPlotColumns == << <<"time">>, <<"voltage">> >>

NanothicknessColumns ==
    << <<"pos1">>, <<"pos2">>, <<"pos3">>, <<"pos4">>, <<"pos5">> >>

\* read_cole_cole_csv on the header pd.read_csv hands over
read_cole_cole_csv(columns) ==
    LET cols == NormalizeColumns(columns)
        required == Range(ColeColeColumns)
    IN IF ~(required \subseteq Range(cols))
       THEN [res |-> "Validation", out |-> <<>>,
             missing |-> MissingColumns(required, cols)]
       ELSE [res |-> "ok", out |-> SelectColumns(cols, ColeColeColumns),
             missing |-> {}]

\* read_standard_plot_csv
read_standard_plot_csv(columns) ==
    LET cols == NormalizeColumns(columns)
        required == Range(StandardPlotColumns)
    IN IF ~(required \subseteq Range(cols))
       THEN [res |-> "Validation", out |-> <<>>,
             missing |-> MissingColumns(required, cols)]
       ELSE [res |-> "ok", out |-> SelectColumns(cols, StandardPlotColumns),
             missing |-> {}]

\* read_nanothickness_csv, which services/sync.py does not define: the
\* ingestor of the specification, section 4.2
read_nanothickness_csv(columns) ==
    LET cols == NormalizeColumns(columns)
        required == Range(NanothicknessColumns)
    IN IF ~(required \subseteq Range(cols))
       THEN [res |-> "Validation", out |-> <<>>,
             missing |-> required \ Range(cols)]
       ELSE [res |-> "ok", out |-> NanothicknessColumns, missing |-> {}]

\* the canonical columns of a kind
RequiredColumns(kind) ==
    CASE kind = "cole_cole" -> ColeColeColumns
      [] kind = "standard_plot" -> StandardPlotColumns
      [] kind = "nanothickness" -> NanothicknessColumns

\* the headers the drawn files of a kind use: each required label as it is,
\* the first one also capitalised between blanks, and a column of no kind
HeaderPool(kind) ==
    Range(RequiredColumns(kind))
    \cup {<<"extra">>}
    \cup (CASE kind = "cole_cole" -> {<<" ", "Frequency", " ">>}
            [] kind = "standard_plot" -> {<<" ", "TIME", " ">>}
            [] kind = "nanothickness" -> {<<" ", "Pos1", " ">>})

\* headers of n columns; pd.read_csv hands over pairwise different labels
RECURSIVE Headers(_, _)
Headers(pool, n) ==
    IF n = 0 THEN {<<>>}
    ELSE UNION {{Append(s, h) : h \in pool \ Range(s)} :
                   s \in Headers(pool, n - 1)}

CsvFiles(kind) ==
    UNION {Headers(HeaderPool(kind), n) :
              n \in 1..(Len(RequiredColumns(kind)) + MaxExtra)}

\* one exported file in the reading folder
CsvInit ==
    /\ local = EmptyStore
    /\ remote = EmptyStore
    /\ nextUuid = 1
    /\ session = [username |-> NoUser, bootstrapped |-> FALSE]
    /\ last = NoOp
    /\ schema = CurrentColumns
    /\ \E kind \in Kinds : \E columns \in CsvFiles(kind) :
           folders = {[kind |-> kind, columns |-> columns]}

ReadColeColeCsv ==
    \E f \in folders :
        /\ f.kind = "cole_cole"
        /\ LET r == read_cole_cole_csv(f.columns)
           IN last' = [NoOp EXCEPT !.op = "read_csv", !.kind = f.kind,
                          !.res = r.res, !.columns = f.columns,
                          !.out = r.out, !.missing = r.missing]
        /\ UNCHANGED <<local, remote, folders, nextUuid, session, schema>>

ReadStandardPlotCsv ==
    \E f \in folders :
        /\ f.kind = "standard_plot"
        /\ LET r == read_standard_plot_csv(f.columns)
           IN last' = [NoOp EXCEPT !.op = "read_csv", !.kind = f.kind,
                          !.res = r.res, !.columns = f.columns,
                          !.out = r.out, !.missing = r.missing]
        /\ UNCHANGED <<local, remote, folders, nextUuid, session, schema>>

ReadNanothicknessCsv ==
    \E f \in folders :
        /\ f.kind = "nanothickness"
        /\ LET r == read_nanothickness_csv(f.columns)
           IN last' = [NoOp EXCEPT !.op = "read_csv", !.kind = f.kind,
                          !.res = r.res, !.columns = f.columns,
                          !.out = r.out, !.missing = r.missing]
        /\ UNCHANGED <<local, remote, folders, nextUuid, session, schema>>

CsvNext == ReadColeColeCsv \/ ReadStandardPlotCsv \/ ReadNanothicknessCsv

SpecCsv == CsvInit /\ [][CsvNext]_vars

(***************************************************************************)
(* The local calls against servers whose reading rows may refer to a       *)
(* measurement the pull does not select.                                   *)
(***************************************************************************)
\* a server measurement whose device the server does not hold
StrayMeasurement ==
    [id |-> 303, device_id |-> 199, num_order |-> {1}, name |-> <<"Z">>,
     created_by |-> "bob", created_at |-> Val("datetime", 3),
     is_delete |-> FALSE]

\* a server reading row of a measurement
StrayReading(measurement_id) ==
    [id |-> 404, measurement_id |-> measurement_id, vals |-> Val("decimal", 6),
     is_delete |-> FALSE]

\* the servers: the one of Init, and that one with a reading row of a
\* measurement it lacks or of a measurement without device
StrayRemotes ==
    LET base == [users |-> RemoteUsers0, devices |-> RemoteDevices0,
                 measurements |-> RemoteMeasurements0,
                 cole_cole |-> RemoteColeCole0, standard_plot |-> {},
                 nanothickness |-> RemoteNanothickness0]
        stray == [base EXCEPT !.measurements = @ \cup {StrayMeasurement}]
    IN {base, stray}
       \cup {[base EXCEPT ![k] = @ \cup {StrayReading(UnknownId)}] : k \in Kinds}
       \cup {[stray EXCEPT ![k] = @ \cup {StrayReading(StrayMeasurement.id)}] :
                k \in Kinds}

\* the local store is new, or the mirror an earlier pull took of the server
\* before the stray row came
IntegrityInit ==
    /\ remote \in StrayRemotes
    /\ local \in {EmptyStore,
                  PulledStore(EmptyStore,
                              [remote EXCEPT
                                  !.measurements = RemoteMeasurements0,
                                  !.cole_cole = RemoteColeCole0,
                                  !.standard_plot = {},
                                  !.nanothickness = RemoteNanothickness0])}
    /\ folders = {}
    /\ nextUuid = 1
    /\ session = [bootstrapped |-> FALSE, username |-> NoUser]
    /\ last = NoOp
    /\ schema = CurrentColumns

IntegrityNext == Pull \/ Create \/ Insert \/ Delete

SpecIntegrity == IntegrityInit /\ [][IntegrityNext]_vars

(***************************************************************************)
(* Properties of the pull.                                                  *)
(***************************************************************************)
PulledTables == {"users", "devices", "measurements", "cole_cole",
                 "standard_plot"}

AllTables == PulledTables \cup {"nanothickness"}

\* the types a value takes in a SQLite column
SqliteTypes == {"str", "float", "int", "null"}

\* l is what SQLite holds of the remote value r
SameValue(r, l) == l.v = r.v /\ l.t \in SqliteTypes

\* the local row l carries the id and the pulled fields of the remote row r
SameRow(t, r, l) ==
    /\ l.id = r.id
    /\ t \notin Kinds => SameValue(r.created_at, l.created_at)
    /\ t = "users" =>
          /\ l.username = r.username /\ l.role = r.role
          /\ l.active = r.active /\ l.hashed_password = r.hashed_password
    /\ t = "devices" =>
          /\ l.name = r.name /\ l.experiment_by = r.experiment_by
          /\ l.created_by = r.created_by
          /\ SameValue(r.structure_json, l.structure_json)
    /\ t = "measurements" =>
          /\ l.device_id = r.device_id /\ l.num_order = r.num_order
          /\ l.name = r.name /\ l.created_by = r.created_by
    /\ t \in Kinds =>
          /\ l.measurement_id = r.measurement_id
          /\ SameValue(r.vals, l.vals)

PullSucceeded == last.op = "pull" /\ last.res = "ok"

\* C1: after a successful pull each of the five pulled local tables holds
\* exactly one row for every remote row of the same table, with the same id
\* and the same pulled field values, and no other row.
C1_PullMirrorsRemote ==
    PullSucceeded =>
        \A t \in PulledTables :
            /\ \A r \in remote[t] :
                  Cardinality({l \in local[t] : l.id = r.id}) = 1
                  /\ \A l \in local[t] : l.id = r.id => SameRow(t, r, l)
            /\ \A l \in local[t] : \E r \in remote[t] : r.id = l.id

\* a pull has mirrored back a measurement and a reading row the program
\* itself pushed
C1_Witness ==
    /\ PullSucceeded
    /\ \E m \in local.measurements : m.id <= MaxUuid /\ m.num_order # NoOrder
    /\ \E r \in local.cole_cole : r.id <= MaxUuid

IdsOf(rows) == {r.id : r \in rows}

\* C2: a successful pull removes every local row whose id the remote does not
\* hold, in all six tables: a measurement created locally and never pushed
\* is lost with all of its reading rows.
C2_PullDiscardsUnpushed ==
    [][(last'.op = "pull" /\ last'.res = "ok") =>
          \A t \in AllTables :
              \A l \in local[t] :
                  l.id \notin IdsOf(remote[t]) => l.id \notin IdsOf(local'[t])
      ]_vars

\* a pull has discarded reading rows of a never pushed measurement, and
\* nothing the program created is left in either store
C2_Witness ==
    /\ PullSucceeded
    /\ last.n >= 1
    /\ \A t \in AllTables :
          /\ \A r \in local[t] : r.id > MaxUuid
          /\ \A r \in remote[t] : r.id > MaxUuid

(***************************************************************************)
(* Properties of the push.                                                  *)
(***************************************************************************)
OrdersOf(rem, device_id) ==
    {o \in 0..(MaxUuid + 10) :
        \E m \in rem.measurements : m.device_id = device_id /\ m.num_order = {o}}

\* C3: the remote row a push creates for a measurement not yet on the remote
\* gets the largest order number of the remote measurements of its device
\* plus one, and 1 when the device has none.
C3_PushAssignsNextOrder ==
    [][\A m \in remote'.measurements :
          m.id \notin IdsOf(remote.measurements) =>
             LET os == OrdersOf(remote, m.device_id)
             IN \E o \in 1..(MaxUuid + 11) :
                   /\ m.num_order = {o}
                   /\ os = {} => o = 1
                   /\ os # {} => (o - 1 \in os /\ \A x \in os : x < o)
      ]_vars

\* the example of the specification: the device has remote order numbers
\* {1, 2} and the pushed measurement gets 3
C3_Witness ==
    /\ last.op = "push"
    /\ \E m \in remote.measurements :
          /\ m.id = last.mid /\ m.id <= MaxUuid /\ m.num_order = {3}
          /\ OrdersOf(remote, m.device_id) = {1, 2, 3}

\* the values of a set of reading rows, with their multiplicities
ValCount(rows, v) == Cardinality({r \in rows : r.vals = v})

\* C4: a successful push of a measurement the remote already holds leaves
\* the remote measurements unchanged and adds one new remote reading row for
\* each non-deleted local reading row of the measurement, every time.
C4_RepushDuplicatesReadings ==
    [][(/\ last'.op = "push" /\ last'.res = "ok"
        /\ last'.mid \in IdsOf(remote.measurements)) =>
          /\ remote'.measurements = remote.measurements
          /\ \A k \in Kinds :
                LET new == remote'[k] \ remote[k]
                    src == {r \in local[k] : r.measurement_id = last'.mid
                                             /\ r.is_delete = 0}
                IN /\ remote[k] \subseteq remote'[k]
                   /\ Cardinality(new) = Cardinality(src)
                   /\ \A r \in new :
                         /\ r.measurement_id = last'.mid
                         /\ r.id \notin IdsOf(remote[k])
                         /\ ValCount(new, r.vals) = ValCount(src, r.vals)
      ]_vars

\* two pushes of a measurement with one local reading row and no local
\* change between them: the remote holds the row the first push contributed
\* twice
C4_Witness ==
    /\ last.op = "push" /\ last.res = "ok" /\ last.n = 1
    /\ \E m \in local.measurements :
          /\ m.id = last.mid
          /\ Cardinality({r \in local.cole_cole :
                              r.measurement_id = m.id}) = 1
          /\ Cardinality({r \in remote.cole_cole :
                              r.measurement_id = m.id /\ r.id <= MaxUuid}) = 2
          /\ \A k \in Kinds \ {"cole_cole"} :
                \A r \in local[k] : r.measurement_id # m.id

\* (device_id, num_order) is unique where num_order is set
UniqueOrders(rows) ==
    \A a, b \in rows :
        (a.device_id = b.device_id /\ a.num_order = b.num_order
            /\ a.num_order # NoOrder) => a.id = b.id

\* C5: in every reachable state no two measurements of a device carry the
\* same non-null order number, on the remote and in the local mirror.
C5_OrderNumbersUnique ==
    UniqueOrders(remote.measurements) /\ UniqueOrders(local.measurements)

\* a measurement the program created and pushed sits in both stores next to
\* two older numbered measurements of its device
C5_Witness ==
    \E m \in local.measurements :
        /\ m.id <= MaxUuid /\ m.num_order # NoOrder
        /\ m \in {PullMeasurement(r) : r \in remote.measurements}
        /\ Cardinality({x \in local.measurements :
                           x.device_id = m.device_id
                           /\ x.num_order # NoOrder}) = 3

(***************************************************************************)
(* Properties of the soft delete.                                           *)
(***************************************************************************)
DeletedLocally == last.op = "delete" /\ last.res \in {"ok", "PartialFailure"}

\* the rows of a table outside one measurement
OtherMeasurements(rows, id) == {m \in rows : m.id # id}

OtherReadings(rows, id) == {r \in rows : r.measurement_id # id}

\* a row as it is once flagged deleted
Flagged(r) == [r EXCEPT !.is_delete = 1]

\* C6: a soft delete that succeeds locally flags the resolved measurement and
\* every cole_cole, standard_plot and nanothickness row of it, and leaves
\* every other measurement and every other measurement's reading rows as
\* they were.
C6_SoftDeleteCascadesAndFrames ==
    [][(last'.op = "delete" /\ last'.res \in {"ok", "PartialFailure"}) =>
          LET id == last'.mid
          IN /\ local'.measurements =
                  OtherMeasurements(local.measurements, id)
                  \cup {Flagged(m) : m \in {x \in local.measurements :
                                               x.id = id}}
             /\ \E m \in local'.measurements : m.id = id /\ m.is_delete = 1
             /\ \A k \in Kinds :
                   /\ \A r \in local'[k] :
                         r.measurement_id = id => r.is_delete = 1
                   /\ IdsOf(local'[k]) = IdsOf(local[k])
                   /\ OtherReadings(local'[k], id) = OtherReadings(local[k], id)
             /\ local'.users = local.users
             /\ local'.devices = local.devices
      ]_vars

\* a measurement with rows of all three kinds has been deleted next to a
\* live measurement that keeps a live reading row
C6_Witness ==
    /\ DeletedLocally
    /\ \A k \in Kinds :
          \E r \in local[k] : r.measurement_id = last.mid /\ r.is_delete = 1
    /\ \E m \in local.measurements :
          /\ m.id # last.mid /\ m.is_delete = 0
          /\ \E r \in local.cole_cole :
                r.measurement_id = m.id /\ r.is_delete = 0

\* C7: for every non-deleted measurement the device and measurement names
\* of a soft_delete_measurement call denote, the call succeeds locally when
\* the acting user created it, and fails with a permission error that changes
\* neither store for any other acting user.
C7_OwnerOnlyDelete ==
    [][last'.op = "delete" =>
          \A m \in RowsByName(local, last'.dev, last'.name) :
             /\ m.created_by = last'.user =>
                   /\ last'.res \in {"ok", "PartialFailure"}
                   /\ Flagged(m) \in local'.measurements
             /\ m.created_by # last'.user =>
                   /\ last'.res = "Permission"
                   /\ local' = local /\ remote' = remote
      ]_vars

\* C8: a soft delete whose remote propagation fails ends with the error that
\* reports local success and remote failure, keeps the local measurement and
\* its reading rows flagged, and leaves the remote store unchanged; any
\* other delete that flags the local measurement has flagged the remote one.
C8_FailedPropagationKeepsLocalDelete ==
    [][last'.op = "delete" =>
          LET id == last'.mid
              flaggedNow ==
                 \E m \in local.measurements :
                    m.id = id /\ m.is_delete = 0
                    /\ Flagged(m) \in local'.measurements
          IN /\ last'.res = "PartialFailure" =>
                   /\ flaggedNow
                   /\ \A k \in Kinds : \A r \in local'[k] :
                         r.measurement_id = id => r.is_delete = 1
                   /\ remote' = remote
             /\ (flaggedNow /\ last'.res # "PartialFailure") =>
                   /\ last'.res = "ok"
                   /\ \A m \in remote'.measurements : m.id = id => m.is_delete
                   /\ \A k \in Kinds : \A r \in remote'[k] :
                         r.measurement_id = id => r.is_delete
      ]_vars

\* the stores have diverged: deleted locally with its reading row, live on
\* the remote with its reading row
C8_Witness ==
    /\ last.op = "delete" /\ last.res = "PartialFailure"
    /\ \E m \in local.measurements : m.id = last.mid /\ m.is_delete = 1
    /\ \E r \in local.cole_cole :
          r.measurement_id = last.mid /\ r.is_delete = 1
    /\ \E m \in remote.measurements : m.id = last.mid /\ ~m.is_delete
    /\ \E r \in remote.cole_cole :
          r.measurement_id = last.mid /\ ~r.is_delete

(***************************************************************************)
(* Properties of create_measurement.                                        *)
(***************************************************************************)
\* t is s without its surrounding whitespace
IsTrimOf(t, s) ==
    \E i \in 1..(Len(s) + 1), j \in 0..Len(s) :
        /\ t = SubSeq(s, i, j)
        /\ \A k \in 1..Len(s) : (k < i \/ k > j) => s[k] \in Whitespace
        /\ t # <<>> => (t[1] \notin Whitespace /\ t[Len(t)] \notin Whitespace)

\* C9: create_measurement with a name that, trimmed, is the name of a
\* non-deleted measurement of the same device fails with a validation error
\* and inserts nothing; otherwise, also when another device has a
\* measurement of that name, it inserts exactly one measurement row, with
\* the trimmed name, no order number and is_delete = 0.
C9_CreateRejectsDuplicateName ==
    [][last'.op = "create" =>
          \E d \in local.devices :
             /\ d.name = last'.dev
             /\ LET taken ==
                      \E m \in local.measurements :
                         /\ m.device_id = d.id /\ m.is_delete = 0
                         /\ IsTrimOf(m.name, last'.name)
                IN /\ taken => (last'.res = "Validation" /\ local' = local)
                   /\ ~taken =>
                         /\ last'.res = "ok"
                         /\ \E row \in local'.measurements :
                               /\ row \notin local.measurements
                               /\ local'.measurements =
                                     local.measurements \cup {row}
                               /\ row.device_id = d.id
                               /\ IsTrimOf(row.name, last'.name)
                               /\ row.num_order = NoOrder
                               /\ row.is_delete = 0
                               /\ row.created_by = last'.user
                         /\ \A t \in AllTables \ {"measurements"} :
                               local'[t] = local[t]
      ]_vars

\* a measurement created under one device has the name of a live measurement
\* of another device, and a later create of that name, given with
\* surrounding whitespace, was refused
C9_Witness ==
    /\ last.op = "create" /\ last.res = "Validation"
    /\ last.name # strip(last.name)
    /\ \E m, x \in local.measurements :
          /\ m.id <= MaxUuid /\ x.id # m.id
          /\ x.name = m.name /\ x.device_id # m.device_id
          /\ m.name = strip(last.name)
          /\ x.is_delete = 0 /\ m.is_delete = 0

(***************************************************************************)
(* Ownership in the application.                                            *)
(***************************************************************************)
\* rows of a reading table of a measurement whose id no store held before
FreshReadings(before, after, k, id) ==
    {r \in after[k] :
        /\ r.measurement_id = id
        /\ r.id \notin IdsOf(local[k]) \cup IdsOf(remote[k])
        /\ r.id \notin IdsOf(before[k])}

\* C10: in every sequence of user actions, reading rows are added to a
\* measurement, locally or on the remote, and a measurement is soft-deleted,
\* locally or on the remote, only by an action of the logged-in user who is
\* recorded as the creator of that measurement.
C10_OnlyCreatorMutates ==
    [][/\ \A m \in local.measurements :
             (\/ \E k \in Kinds : FreshReadings(local, local', k, m.id) # {}
              \/ \E k \in Kinds : FreshReadings(remote, remote', k, m.id) # {}
              \/ (m.is_delete = 0 /\ Flagged(m) \in local'.measurements))
             => (LoggedIn /\ m.created_by = session.username)
       /\ \A m \in remote.measurements :
             (~m.is_delete /\ [m EXCEPT !.is_delete = TRUE]
                                  \in remote'.measurements)
             => (LoggedIn /\ m.created_by = session.username)
      ]_vars

\* the creator has created a measurement, accepted a table for it and
\* pushed it; then another user was refused its deletion
C10_Witness ==
    /\ last.op = "ui_delete" /\ last.res = "Permission"
    /\ \E m \in local.measurements :
          /\ m.id = last.mid /\ m.id <= MaxUiUuid
          /\ m.created_by # session.username
          /\ \E k \in Kinds :
                /\ \E r \in local[k] : r.measurement_id = m.id
                /\ \E r \in remote[k] : r.measurement_id = m.id

(***************************************************************************)
(* Failure of the pull in the application.                                  *)
(***************************************************************************)
\* C11: when the pull attempted at login, after the password was accepted,
\* fails, the user ends logged in and the local store holds exactly the rows
\* it held before; a failed pull at start leaves the local store as it was
\* too.
C11_FailedPullKeepsLocal ==
    [][/\ (last'.op = "login" /\ last'.res = "PullWarning") =>
             /\ last'.user # NoUser
             /\ session'.username = last'.user
             /\ session'.bootstrapped
             /\ local' = local
       /\ (last'.op = "bootstrap" /\ last'.res # "ok") => local' = local
      ]_vars

\* a user is logged in after a failed pull while the local store still holds
\* the mirrored rows and a measurement created locally
C11_Witness ==
    /\ last.op = "login" /\ last.res = "PullWarning"
    /\ session.username = last.user /\ last.user # NoUser
    /\ \E m \in local.measurements : m.id <= MaxUiUuid
    /\ \E m \in local.measurements : m.id > MaxUiUuid
    /\ local.cole_cole # {}

(***************************************************************************)
(* The table the pull does not reload.                                      *)
(***************************************************************************)
\* C12: after every successful pull, called directly or by the start or
\* login of the application, the local nanothickness table is empty,
\* whatever nanothickness rows the remote holds and whatever rows the local
\* table held before.
C12_PullLeavesNanothicknessEmpty ==
    [][(last'.op \in {"pull", "bootstrap", "login"} /\ last'.res = "ok") =>
          local'.nanothickness = {}]_vars

\* the pull of a login has succeeded while the remote holds the
\* nanothickness row it started with and one the local table held and pushed
C12_Witness ==
    /\ last.op = "login" /\ last.res = "ok"
    /\ local.nanothickness = {}
    /\ \E r \in remote.nanothickness : r.id <= MaxUiUuid
    /\ \E r \in remote.nanothickness : r.id > MaxUiUuid

(***************************************************************************)
(* Push of an unknown measurement.                                          *)
(***************************************************************************)
\* C13: a push of a measurement id that has no row in the local measurements
\* table ends with the not-found error whether or not the server can be
\* reached, and leaves the remote and the local store unchanged.
C13_PushUnknownIdNotFound ==
    [][(/\ last'.op = "push"
        /\ ~\E m \in local.measurements : m.id = last'.mid) =>
          /\ last'.res = "NotFound"
          /\ \A fail \in FailPoints :
                sync_sqlite_to_server(local, remote, last'.mid, fail,
                                      nextUuid).res = "NotFound"
          /\ remote' = remote /\ local' = local /\ nextUuid' = nextUuid
      ]_vars

\* the push of an id no local row has was refused while the local store
\* holds measurements that can be pushed
C13_Witness ==
    /\ last.op = "push" /\ last.res = "NotFound"
    /\ ~\E m \in local.measurements : m.id = last.mid
    /\ \E m \in local.measurements : m.id <= MaxUuid /\ m.is_delete = 0

(***************************************************************************)
(* Inserts of reading rows.                                                 *)
(***************************************************************************)
\* every id of every row of a store
AllIds(st) == UNION {IdsOf(st[t]) : t \in AllTables}

\* what one insert_* call adds to its table
Added(before, after, k) == after[k] \ before[k]

\* the call added exactly n rows to table k for measurement id, each with an
\* id no row of before has, and left every other table as it was
AddsRows(before, after, k, id, n) ==
    /\ before[k] \subseteq after[k]
    /\ Cardinality(Added(before, after, k)) = n
    /\ Cardinality(IdsOf(Added(before, after, k))) = n
    /\ \A r \in Added(before, after, k) :
          /\ r.measurement_id = id /\ r.is_delete = 0
          /\ r.id \notin AllIds(before)
    /\ \A t \in AllTables \ {k} : after[t] = before[t]

\* C14: every insert_* call that is given a table of r rows for a local
\* measurement succeeds and adds exactly r new rows of that kind for the
\* measurement, each with an unused id, whatever rows the table held (no
\* upsert, no deduplication, so that k calls add k*r rows), and changes no
\* other table.
C14_InsertAddsOneRowPerRecord ==
    [][last'.op = "insert" =>
          /\ last'.mid \in IdsOf(local.measurements) => last'.res = "ok"
          /\ last'.res = "ok" =>
                /\ last'.n \in {Len(df) : df \in Tables}
                /\ AddsRows(local, local', last'.kind, last'.mid, last'.n)
                /\ nextUuid' = nextUuid + last'.n
      ]_vars

\* two calls with the same one-row table have left two rows of equal values
\* next to the row the measurement had
C14_Witness ==
    /\ last.op = "insert" /\ last.res = "ok" /\ last.n = 1
    /\ \E a, b \in local[last.kind] :
          /\ a.id # b.id /\ a.id <= MaxUuid /\ b.id <= MaxUuid
          /\ a.vals = b.vals
          /\ a.measurement_id = last.mid /\ b.measurement_id = last.mid
    /\ Cardinality({r \in local[last.kind] :
                       r.measurement_id = last.mid}) = 3

OwnerAnswer == last.res = "True"

\* C16 as stated: is_measurement_owner returns true if and only if a
\* measurement row with the id exists locally and its creator is the
\* username, and false, without raising, when no such row exists.
C16_OwnerIffRowOfCreator ==
    last.op = "is_measurement_owner" =>
        /\ last.res \in {"True", "False"}
        /\ OwnerAnswer <=>
              \E m \in local.measurements :
                 m.id = last.mid /\ m.created_by = last.user

\* C16 amended: is_measurement_owner returns true if and only if a
\* measurement row with the id that is not soft-deleted exists locally and
\* its creator is the username; it returns false, without raising, for every
\* other id and username, a soft-deleted measurement of the user included.
C16_OwnerIffLiveRowOfCreator ==
    last.op = "is_measurement_owner" =>
        /\ last.res \in {"True", "False"}
        /\ OwnerAnswer <=>
              \E m \in local.measurements :
                 /\ m.id = last.mid /\ m.created_by = last.user
                 /\ m.is_delete = 0

\* the query answered true for the creator of a live measurement while the
\* database also holds a soft-deleted measurement
C16_Witness ==
    /\ last.op = "is_measurement_owner" /\ OwnerAnswer
    /\ \E m \in local.measurements :
          m.id = last.mid /\ m.created_by = last.user /\ m.is_delete = 0
    /\ \E m \in local.measurements : m.is_delete = 1

(***************************************************************************)
(* Properties of migrate_sqlite.                                            *)
(***************************************************************************)
\* the columns an existing table must have for the upgrade to complete it:
\* those no _add_column_if_missing call names
BaseColumns(t) ==
    CurrentColumns[t] \ {AddedColumns[t][i] : i \in 1..Len(AddedColumns[t])}

FullSchema(sch) == \A t \in DOMAIN CurrentColumns : sch[t] = CurrentColumns[t]

\* C17 as stated: after migrate_sqlite has run on a database in which a
\* table exists with any subset of its current columns that includes the
\* primary key, each of the six tables exists with its full current column
\* set.
C17_MigrateCompletesAnyOlderTable ==
    [][last'.op = "migrate" => FullSchema(schema')]_vars

\* C17 amended: after migrate_sqlite has run on a database in which every
\* table that exists has at least the columns no _add_column_if_missing call
\* names, each of the six tables exists with its full current column set.
C17_MigrateCompletesKnownOlderTable ==
    [][(/\ last'.op = "migrate"
        /\ \A t \in DOMAIN CurrentColumns :
              schema[t] = {} \/ BaseColumns(t) \subseteq schema[t]) =>
          last'.res = "ok" /\ FullSchema(schema')]_vars

\* a run has added columns to a table that held a row, and all six tables
\* now have their current columns
C17_Witness ==
    /\ last.op = "migrate" /\ last.n >= 2
    /\ FullSchema(schema)
    /\ \E t \in DOMAIN CurrentColumns : \E r \in local[t] :
          r["is_delete"] = ColumnDefault("is_delete") /\ r["id"] = Val("str", 1)

\* a row as far as the columns of an older table go
Restricted(r, cols) == [c \in cols |-> r[c]]

\* C18: a run of migrate_sqlite raises no error, keeps every table's
\* columns, keeps every row that existed with every value it had, and adds
\* no row; a run that follows another run changes neither the schema nor
\* the rows.
C18_MigrateIdempotentNonDestructive ==
    [][last'.op = "migrate" =>
          /\ last'.res = "ok"
          /\ \A t \in DOMAIN CurrentColumns :
                /\ schema[t] \subseteq schema'[t]
                /\ local[t] = {Restricted(r, schema[t]) : r \in local'[t]}
                /\ Cardinality(local'[t]) = Cardinality(local[t])
          /\ last.op = "migrate" =>
                schema' = schema /\ local' = local /\ last'.n = 0
          /\ LET again == migrate_sqlite(schema', local')
             IN /\ again.res = "ok" /\ again.added = 0
                /\ again.schema = schema' /\ again.rows = local'
      ]_vars

\* a second run has added nothing to a database whose row got a column from
\* the first run
C18_Witness ==
    /\ last.op = "migrate" /\ last.res = "ok" /\ last.n = 0
    /\ \E t \in DOMAIN CurrentColumns : \E r \in local[t] :
          /\ "is_delete" \in DOMAIN r
          /\ r["is_delete"] = ColumnDefault("is_delete")
          /\ r["id"] = Val("str", 1)

(***************************************************************************)
(* Properties of the CSV ingestors.                                        *)
(***************************************************************************)
\* the required columns that no header of the file normalises to
Lacking(kind, columns) ==
    {c \in Range(RequiredColumns(kind)) :
        \A i \in 1..Len(columns) : NormalizeHeader(columns[i]) # c}

\* C19: for each reading kind and every CSV whose headers, trimmed and
\* lower-cased, include all required columns of the kind, in any order and
\* with any extra columns, the ingestor returns a table of exactly the
\* required columns, each once, in the canonical order.
C19_IngestReturnsRequiredColumns ==
    (last.op = "read_csv" /\ Lacking(last.kind, last.columns) = {})
        => /\ last.res = "ok"
           /\ last.out = RequiredColumns(last.kind)

\* C20: for every CSV whose normalised headers lack a required column of the
\* kind, the ingestor fails with a validation error that names exactly the
\* missing required columns, and returns no table.
C20_IngestNamesMissingColumns ==
    (last.op = "read_csv" /\ Lacking(last.kind, last.columns) # {})
        => /\ last.res = "Validation"
           /\ last.missing = Lacking(last.kind, last.columns)
           /\ last.out = <<>>

\* a Cole-Cole file with an extra column and a respelt one lacks two columns
C20_Witness ==
    /\ last.op = "read_csv"
    /\ last.kind = "cole_cole"
    /\ last.res = "Validation"
    /\ <<"extra">> \in Range(last.columns)
    /\ <<" ", "Frequency", " ">> \in Range(last.columns)
    /\ last.missing = {<<"reactance">>, <<"capacitance">>}

(***************************************************************************)
(* Properties of the listings.                                             *)
(***************************************************************************)
\* the non-deleted measurements of a device, read off the tables
LiveOf(d) ==
    {m \in local.measurements : m.device_id = d.id /\ m.is_delete = 0}

FoldersCover(st, fs) ==
    \A d \in st.devices : d.is_delete = 0 =>
        /\ <<d.name>> \in fs
        /\ \A m \in st.measurements :
              (m.device_id = d.id /\ m.is_delete = 0)
                  => <<d.name, m.name>> \in fs

\* C22: after sync_db_to_filesystem a folder exists for every non-deleted
\* device and every non-deleted measurement of a non-deleted device, and no
\* operation (create, soft delete, pull, push, filesystem sync) removes a
\* folder: the set of folders only grows.
C22_FoldersCoverAndGrow ==
    [][/\ folders \subseteq folders'
       /\ (last'.op = "login" /\ last'.res \in {"ok", "PullWarning"})
             => FoldersCover(local', folders')]_vars

\* a login walked the folders and kept the folder of a measurement that the
\* pull had discarded
C22_Witness ==
    /\ last.op = "login"
    /\ last.res = "ok"
    /\ \E d \in local.devices : <<d.name>> \in folders
    /\ \E m \in local.measurements : m.is_delete = 0
    /\ \E f \in folders :
          /\ Len(f) = 2
          /\ ~\E d \in local.devices, m \in local.measurements :
                d.name = f[1] /\ m.device_id = d.id /\ m.name = f[2]

(***************************************************************************)
(* Properties of get_device_structure.                                     *)
(***************************************************************************)
RECURSIVE Join(_)
\* the texts of the items of a list, separated by commas
Join(texts) ==
    IF texts = <<>> THEN <<>>
    ELSE IF Len(texts) = 1 THEN texts[1]
    ELSE texts[1] \o <<",">> \o Join(Tail(texts))

RECURSIVE Dumps(_)
\* the text of a JSON value
Dumps(v) ==
    IF v.t = "int" THEN <<"1">>
    ELSE <<"[">> \o Join([i \in 1..Len(v.v) |-> Dumps(v.v[i])]) \o <<"]">>

RECURSIVE JsonValues(_)
\* the JSON values of at most k levels whose text has at most MaxJson tokens
JsonValues(k) ==
    IF k = 0 THEN {Val("int", 1)}
    ELSE LET prev == JsonValues(k - 1)
         IN prev \cup
            {v \in {Val("list", s) :
                       s \in UNION {[1..n -> prev] : n \in 0..(MaxJson \div 2)}} :
                Len(Dumps(v)) <= MaxJson}

\* the stored structure of the device the last call asked for, if any
AskedStructure ==
    {d.structure_json : d \in {x \in local.devices : x.name = last.dev}}

\* C23: get_device_structure never raises on the stored text: it returns the
\* parsed value of well-formed JSON, the payload with key _error for
\* malformed text, and None when the device is unknown or has no structure.
C23_StructureNeverRaises ==
    last.op = "get_device_structure" =>
        /\ last.res = "ok"
        /\ (AskedStructure = {} \/ AskedStructure \subseteq {NULL, Val("str", <<>>)})
              => last.out = None
        /\ \A t \in AskedStructure \ {NULL, Val("str", <<>>)} :
              LET values == {v \in JsonValues(MaxJson \div 2) : Dumps(v) = t.v}
              IN IF values = {} THEN last.out = ErrorPayload
                 ELSE last.out \in values

\* a malformed text answered with the error payload
C23_Witness ==
    /\ last.op = "get_device_structure"
    /\ last.out = ErrorPayload
    /\ AskedStructure = {Val("str", <<"[", "1", ",", "]">>)}

(***************************************************************************)
(* Properties of soft delete across pulls.                                 *)
(***************************************************************************)
\* the remote measurements a soft delete of this program has flagged
PropagatedDeletes ==
    {m \in remote.measurements : m.is_delete /\ m \notin RemoteMeasurements0}

\* the name of the device of a remote measurement
DeviceNameOf(m) == (CHOOSE d \in remote.devices : d.id = m.device_id).name

\* C24: a measurement soft-deleted with successful remote propagation stays
\* soft-deleted locally after any later successful pull: its local row has
\* is_delete = 1, get_devices_and_measurements does not list it and
\* get_measurement_id fails for its name.
C24_PropagatedDeleteSurvivesPull ==
    (last.op = "pull" /\ last.res = "ok") =>
        \A m \in PropagatedDeletes :
            /\ \A l \in local.measurements : l.id = m.id => l.is_delete = 1
            /\ \A data \in get_devices_and_measurements(local) :
                  DeviceNameOf(m) \in DOMAIN data =>
                      m.name \notin Range(data[DeviceNameOf(m)])
            /\ \A r \in get_measurement_id(local, DeviceNameOf(m), m.name) :
                  r.res = "NotFound"

\* the remote rows of a measurement are all flagged
FlaggedOnRemote(rem, id) ==
    /\ \A m \in rem.measurements : m.id = id => m.is_delete
    /\ \A k \in Kinds : \A r \in rem[k] : r.measurement_id = id => r.is_delete

\* C25: after a soft delete that succeeded locally and failed to propagate,
\* calling soft_delete_measurement again for the same device name,
\* measurement name and creator, with the remote reachable and no pull in
\* between, propagates the delete: the remote measurement and its reading
\* rows become is_delete = true.
C25_RepeatedDeletePropagates ==
    [][(/\ last.op = "delete" /\ last.res = "PartialFailure"
        /\ last'.op = "delete" /\ last'.res # "PartialFailure"
        /\ last'.dev = last.dev /\ last'.name = last.name
        /\ last'.user \in {last.user, NoUser})
          => FlaggedOnRemote(remote', last.mid)]_vars

\* C26: in every reachable local state no device has two non-deleted
\* measurements of the same name, so get_measurement_id resolves a device
\* name and a measurement name to at most one measurement.
C26_LiveNamesUniquePerDevice ==
    /\ \A a, b \in local.measurements :
          (a.device_id = b.device_id /\ a.name = b.name
             /\ a.is_delete = 0 /\ b.is_delete = 0) => a = b
    /\ \A d \in DeviceNames, n \in MeasurementNames :
          Cardinality(get_measurement_id(local, d, n)) <= 1

(***************************************************************************)
(* Properties of the push.                                                 *)
(***************************************************************************)
\* the rows of a reading table that belong to a measurement
RowsOf(st, k, id) == {r \in st[k] : r.measurement_id = id}

\* C27: when readings are added through the unconfirmed "Add to DB" button
\* only, with no "Sync again" and no pull in between, the remote rows of a
\* kind of the measurement never outnumber its local rows: an Add leaves no
\* kind with more remote than local rows that had none before.
C27_AddNeverDuplicatesOnRemote ==
    [][last'.op = "ui_add" =>
          \A k \in Kinds :
              Cardinality(RowsOf(remote, k, last'.mid))
                    <= Cardinality(RowsOf(local, k, last'.mid))
                => Cardinality(RowsOf(remote', k, last'.mid))
                      <= Cardinality(RowsOf(local', k, last'.mid))]_vars

\* C28: in every reachable remote state every reading row of a remote
\* measurement flagged is_delete is itself flagged is_delete.
C28_RemoteDeleteCascades ==
    \A m \in remote.measurements : m.is_delete =>
        \A k \in Kinds : \A r \in remote[k] :
            r.measurement_id = m.id => r.is_delete

\* C29: a push commits the remote measurement row in a transaction of its
\* own before any reading row is sent and commits the reading rows of the
\* three kinds together afterwards: a push that fails leaves the remote
\* reading tables as they were and at most adds the measurement row with
\* its order number; a push that succeeds adds one row per local row sent.
C29_PushCommitsMeasurementThenAllReadings ==
    [][last'.op = "push" =>
          /\ remote'.users = remote.users /\ remote'.devices = remote.devices
          /\ \/ remote'.measurements = remote.measurements
             \/ \E row \in remote'.measurements :
                   /\ row.id = last'.mid
                   /\ row.num_order # NoOrder
                   /\ row \notin remote.measurements
                   /\ remote'.measurements = remote.measurements \cup {row}
          /\ IF last'.res = "ok"
             THEN \A k \in Kinds :
                     /\ remote[k] \subseteq remote'[k]
                     /\ Cardinality(remote'[k] \ remote[k])
                           = Cardinality(LiveReadings(local, k, last'.mid))
             ELSE \A k \in Kinds : remote'[k] = remote[k]]_vars

\* a push failed after its measurement step: the remote holds the row of the
\* locally created measurement with an order number and none of its readings
C29_Witness ==
    /\ last.op = "push"
    /\ last.res = "Connectivity"
    /\ \E m \in remote.measurements :
          /\ m.id = last.mid
          /\ m.num_order # NoOrder
          /\ m.id \notin {r.id : r \in RemoteMeasurements0}
    /\ \E k \in Kinds : LiveReadings(local, k, last.mid) # {}
    /\ \A k \in Kinds : RowsOf(remote, k, last.mid) = {}

\* the order number of the row of a measurement in a store, if it has one
OrderOf(st, id) == UNION {m.num_order : m \in {x \in st.measurements : x.id = id}}

\* C30: a push, successful or failed, leaves every local table unchanged;
\* the local order number of a locally created measurement is still null
\* after its push and changes only in a successful pull, which makes it the
\* remote order number.
C30_PushLeavesLocalUnchanged ==
    [][/\ last'.op = "push" => local' = local
       /\ \A m \in local.measurements :
             (m.num_order = NoOrder /\ OrderOf(local', m.id) # NoOrder)
                => /\ last'.op = "pull" /\ last'.res = "ok"
                   /\ OrderOf(local', m.id) = OrderOf(remote, m.id)]_vars

\* a locally created measurement has been pushed, the remote holds its order
\* number and the local row has none yet
C30_Witness ==
    /\ last.op = "push"
    /\ last.res = "ok"
    /\ \E m \in local.measurements :
          /\ m.id = last.mid
          /\ m.num_order = NoOrder
          /\ OrderOf(remote, m.id) # NoOrder

(***************************************************************************)
(* Referential integrity of the local store.                               *)
(***************************************************************************)
\* every reading row has its measurement and every measurement its device
Referenced(st) ==
    /\ \A k \in Kinds : \A r \in st[k] :
          \E m \in st.measurements : m.id = r.measurement_id
    /\ \A m \in st.measurements : \E d \in st.devices : d.id = m.device_id

\* the server rows the pull selects from the measurements table
Selected(rem) ==
    {m \in rem.measurements : \E d \in rem.devices : d.id = m.device_id}

\* a pulled reading table of the server holds a row of a measurement the pull
\* does not select
HasStrayReading(rem) ==
    \E k \in {"cole_cole", "standard_plot"} : \E r \in rem[k] :
        ~\E m \in Selected(rem) : m.id = r.measurement_id

\* C31: in every committed local state reachable by create, insert, soft
\* delete and pull, successful or failed, every reading row refers to a
\* local measurement and every measurement to a local device; an insert for
\* an unknown measurement id and a pull whose remote reading rows refer to a
\* measurement that is not pulled fail and commit nothing.
C31_LocalReferencesHold ==
    [][/\ Referenced(local')
       /\ (last'.op = "insert"
             /\ ~\E m \in local.measurements : m.id = last'.mid)
             => last'.res = "Integrity" /\ local' = local
       /\ (last'.op = "pull" /\ HasStrayReading(remote))
             => last'.res # "ok" /\ local' = local]_vars

\* a pull was refused for a stray Cole-Cole row of the server and left the
\* earlier mirror with its locally created measurement in place
C31_Witness ==
    /\ last.op = "pull"
    /\ last.res = "Integrity"
    /\ HasStrayReading(remote)
    /\ local.devices # {}
    /\ \E m \in local.measurements : m.num_order = NoOrder

====
